---- MODULE Spec2Model ----
(***************************************************************************)
(* RZE trading platform: the trade lifecycle engine                        *)
(* (TradeExecutionService), the order event processor (TradeMonitor), the  *)
(* reconciliation engine (TradeReconciliationService) and the template     *)
(* validation of the templates routes, against a model of the brokerage    *)
(* venue.                                                                  *)
(*                                                                         *)
(* Money is counted in 1/10000 of a dollar (the scale of the ledger's      *)
(* decimal(14,4) price columns), percentages in whole percents, shares in  *)
(* whole shares.  One trade slot is modelled (trade id 1).                 *)
(***************************************************************************)
EXTENDS Integers, Sequences, FiniteSets, TLC

VARIABLES templates, trade, phases, orders, order_events,
          reconciliation_issues, venue, position, stream, dups, drift, res,
          cyclesSync, passes, isReconciling,
          isRunning, reconnectAttempts, timers, sockets, scheduled, lost,
          handling

vars == <<templates, trade, phases, orders, order_events,
          reconciliation_issues, venue, position, stream, dups, drift, res,
          cyclesSync, passes, isReconciling,
          isRunning, reconnectAttempts, timers, sockets, scheduled, lost,
          handling>>

ledgerVars == <<trade, phases, orders, order_events, reconciliation_issues>>
venueVars == <<venue, position, stream, dups, drift>>

\* res: the status of the response to the last POST /api/trades, 0 before the first

\* The services' own state.
\* cyclesSync: callbacks of the periodic timer that are at syncOrders;
\* passes: calls of reconcileAllTrades in progress; isReconciling: its flag
cycleVars == <<cyclesSync, passes, isReconciling>>
\* isRunning, reconnectAttempts: the monitor's fields; timers: reconnects
\* scheduled with setTimeout and not yet run; sockets: how many stream clients
\* are connecting, connected without a subscription, and subscribed;
\* scheduled: reconnects scheduled since the last connect; lost: how many
\* 'WebSocket Connection Lost' notifications were sent
socketVars == <<isRunning, reconnectAttempts, timers, sockets, scheduled, lost>>
\* handling: the pushed fill updates whose handling has started and not returned
serviceVars == <<cycleVars, socketVars, handling>>

----------------------------------------------------------------------------
(* Bounds of the model                                                     *)

MaxTemplates == 4
MaxDuplicates == 1
MaxIssues == 1
MaxReviewIssues == 2
MaxDrift == 1
\* updates the stream holds undelivered before the venue reports a further fill
MaxInFlight == 1
\* the same where updates may arrive late (SpecLate)
MaxLateInFlight == 2
MaxAllocShares == 24
\* callbacks of the periodic timer that have not returned yet
MaxCycles == 2
\* stream clients alive plus reconnects scheduled
MaxSockets == 2
\* 'WebSocket Connection Lost' notifications
MaxLost == 2
\* pushed updates being handled at the same time
MaxHandlers == 2

----------------------------------------------------------------------------
(* Arithmetic helpers                                                      *)

PhaseNumbers == 1..4

Abs(x) == IF x < 0 THEN 0 - x ELSE x

\* Math.floor of a / b for b > 0 (\div already rounds towards minus infinity)
Floor(a, b) == a \div b

\* a / b rounded to the nearest integer, halves away from zero: what a
\* decimal(p, s) column keeps of a value with more than s decimals
RoundHalfUp(a, b) == (a \div b) + (IF 2 * (a % b) >= b THEN 1 ELSE 0)
RoundDiv(a, b) == IF a >= 0 THEN RoundHalfUp(a, b) ELSE 0 - RoundHalfUp(0 - a, b)

\* a value in 1/10000 dollars as a decimal(14,2) column stores it
ToDecimal2(x) == RoundDiv(x, 100) * 100

RECURSIVE SumSeq(_)
SumSeq(s) == IF s = <<>> THEN 0 ELSE Head(s) + SumSeq(Tail(s))

RECURSIVE Reverse(_)
Reverse(s) == IF s = <<>> THEN <<>> ELSE Append(Reverse(Tail(s)), Head(s))

SelectIdx(s, Test(_)) == {i \in 1..Len(s) : Test(s[i])}

\* the elements of a set of naturals as an ascending sequence
RECURSIVE SetToSeq(_)
SetToSeq(S) ==
  IF S = {} THEN <<>>
  ELSE LET m == CHOOSE x \in S : \A y \in S : x <= y
       IN <<m>> \o SetToSeq(S \ {m})

----------------------------------------------------------------------------
(* Templates: the templates table and the validation of the routes         *)

TakeProfitPcts == <<2, 5, 8, 12>>

Phase(tp, sl, sell) == [take_profit_pct |-> tp, stop_loss_pct |-> sl, sell_pct |-> sell]

MkPhases(sl, sell) ==
  [i \in 1..Len(sell) |-> Phase(TakeProfitPcts[i], sl[i], sell[i])]

\* the 'Default' and 'Scalp' rows inserted by the migration (rows 1 and 4; the
\* other two carry half percents)
DefaultTemplatePhases ==
  <<Phase(2, -2, 35), Phase(5, 0, 30), Phase(8, 2, 25), Phase(12, 5, 10)>>

ScalpTemplatePhases ==
  <<Phase(1, -1, 50), Phase(2, 0, 30), Phase(3, 1, 15), Phase(5, 2, 5)>>

defaultTemplates ==
  <<[id |-> 1, phases |-> DefaultTemplatePhases, is_active |-> TRUE, is_default |-> TRUE],
    [id |-> 4, phases |-> ScalpTemplatePhases, is_active |-> FALSE, is_default |-> FALSE]>>

\* request bodies tried against the routes
StopLossVectors == {<<-2, 0, 2, 5>>, <<-2, -1, 2, 5>>, <<-2, 0, 2, -3>>}
SellVectors == {<<35, 30, 25, 10>>, <<60, 60, 60, -80>>, <<40, 30, 20, 5>>, <<50, 30, 20>>}
Names == {"", "T"}

TemplateBodies ==
  {[name |-> n, phases |-> MkPhases(sl, sell), is_active |-> a] :
     n \in Names, sl \in StopLossVectors, sell \in SellVectors, a \in BOOLEAN}

totalSellPct(ps) == SumSeq([i \in 1..Len(ps) |-> ps[i].sell_pct])

\* Math.abs(totalSellPct - 100) > 0.01 rejects
SellPctSumOk(ps) == Abs(totalSellPct(ps) - 100) * 100 <= 1

\* the express-validator chain of POST /api/templates
PostValidators(body) ==
  /\ body.name # ""
  /\ Len(body.phases) = 4
  /\ \A i \in 1..Len(body.phases) :
       /\ body.phases[i].sell_pct >= 0
       /\ body.phases[i].sell_pct <= 100

PostAccepts(body) == PostValidators(body) /\ SellPctSumOk(body.phases)

\* the express-validator chain of PUT /api/templates/:id
PutValidators(body) == Len(body.phases) = 4

PutAccepts(body) == PutValidators(body) /\ SellPctSumOk(body.phases)

formattedPhases(ps) == [i \in 1..Len(ps) |-> ps[i]]

NextTemplateId == IF templates = <<>> THEN 1 ELSE templates[Len(templates)].id + 1

Deactivated(ts) == [i \in 1..Len(ts) |-> [ts[i] EXCEPT !.is_active = FALSE]]

\* POST /api/templates
createTemplate(body) ==
  /\ Len(templates) < MaxTemplates
  /\ IF PostAccepts(body)
     THEN /\ templates' =
               Append(IF body.is_active THEN Deactivated(templates) ELSE templates,
                      [id |-> NextTemplateId, phases |-> formattedPhases(body.phases),
                       is_active |-> body.is_active, is_default |-> FALSE])
     ELSE /\ templates' = templates
  /\ UNCHANGED <<serviceVars, ledgerVars, venueVars, res>>

\* PUT /api/templates/:id
updateTemplate(id, body) ==
  /\ LET hit == {i \in 1..Len(templates) : templates[i].id = id} IN
     IF hit = {}
     THEN /\ templates' = templates
     ELSE IF PutAccepts(body)
     THEN /\ templates' = [i \in 1..Len(templates) |->
                             IF i \in hit
                             THEN [templates[i] EXCEPT !.phases = formattedPhases(body.phases)]
                             ELSE templates[i]]
     ELSE /\ templates' = templates
  /\ UNCHANGED <<serviceVars, ledgerVars, venueVars, res>>

\* POST /api/templates/:id/activate
activateTemplate(id) ==
  /\ \E i \in 1..Len(templates) : templates[i].id = id
  /\ templates' = [i \in 1..Len(templates) |->
                     [templates[i] EXCEPT !.is_active = (templates[i].id = id)]]
  /\ UNCHANGED <<serviceVars, ledgerVars, venueVars, res>>

----------------------------------------------------------------------------
(* The ledger rows and the venue's records                                 *)

NoTrade ==
  [status |-> "none", entry_price |-> 0, total_shares |-> 0, position_size |-> 0,
   remaining_shares |-> 0, current_phase |-> 0, template_id |-> 0,
   realized_pnl_set |-> FALSE, realized_pnl |-> 0, realized_pnl_pct |-> 0,
   exit_reason |-> "", exit_phase |-> 0]

\* the values the status column of the orders table accepts (an enum, hence a
\* check constraint: writing any other value raises)
OrderStatusEnum ==
  {"pending_new", "new", "accepted", "pending_cancel", "partially_filled",
   "filled", "cancelled", "rejected", "expired", "replaced"}

\* the id of the stop-loss leg of the OCO order with id i at the venue
LegId(i) == 0 - i

\* deterministic client order ids: RZE-ENTRY-uuid, RZE-Pn-OCO-uuid, RZE-Pn-SL-uuid
ClientOrderId(purpose, phaseNumber) == <<purpose, phaseNumber>>

\* the state a handler runs on and leaves behind: the ledger tables, the venue,
\* whether the handler has thrown, and the outcomes of its venue calls
\* (okCalls: how many order submissions succeed before one fails;
\*  cancelThrows: whether cancelling an already terminal order raises or
\*  answers 404;
\*  cancelDown: whether the venue's cancel call fails before it reaches the
\*  order, as a request that times out or is refused does)
World(okCalls, cancelThrows) ==
  [trade |-> trade, phases |-> phases, orders |-> orders,
   order_events |-> order_events, issues |-> reconciliation_issues,
   venue |-> venue, position |-> position,
   err |-> FALSE, okCalls |-> okCalls, cancelThrows |-> cancelThrows,
   failAt |-> "none", cancelDown |-> FALSE]

\* a handler's state when the venue's cancel call fails for every order
WorldCancelDown(okCalls) ==
  [World(okCalls, TRUE) EXCEPT !.cancelDown = TRUE]

Install(w) ==
  /\ trade' = w.trade
  /\ phases' = w.phases
  /\ orders' = w.orders
  /\ order_events' = w.order_events
  /\ reconciliation_issues' = w.issues
  /\ venue' = w.venue
  /\ position' = w.position

Throw(w) == [w EXCEPT !.err = TRUE]
Caught(w) == [w EXCEPT !.err = FALSE]

OkCallsChoices == 0..2

----------------------------------------------------------------------------
(* AlpacaService: the calls the engine makes                               *)

VenueLive(o) == o.status = "new"

\* client.createOrder: the venue refuses a client_order_id it has seen, and a
\* submission can fail in transit
CreateOrder(w, kind, qty, limitPrice, stopPrice, coid) ==
  IF w.okCalls = 0 \/ \E i \in 1..Len(w.venue) : w.venue[i].client_order_id = coid
  THEN Throw(w)
  ELSE [w EXCEPT !.okCalls = @ - 1,
                 !.venue = Append(@, [kind |-> kind, qty |-> qty, status |-> "new",
                                      leg_status |-> IF kind = "oco" THEN "held" ELSE "none",
                                      limit_price |-> limitPrice, stop_price |-> stopPrice,
                                      filled_qty |-> 0, filled_avg_price |-> 0,
                                      client_order_id |-> coid])]

placeLimitBuyOrder(w, qty, limitPrice, coid) ==
  CreateOrder(w, "limit_buy", qty, limitPrice, 0, coid)

placeOCOSellOrder(w, qty, takeProfitPrice, stopLossPrice, coid) ==
  CreateOrder(w, "oco", qty, takeProfitPrice, stopLossPrice, coid)

placeStopLossSellOrder(w, qty, stopPrice, coid) ==
  CreateOrder(w, "stop", qty, 0, stopPrice, coid)

\* cancelOrder: a live order is cancelled; for a terminal one the venue
\* answers 404 (returns false) or another error (rethrown)
cancelOrder(w, id) ==
  IF w.cancelDown THEN Throw(w) ELSE
  IF id \in 1..Len(w.venue) /\ VenueLive(w.venue[id])
  THEN [w EXCEPT !.venue[id].status = "canceled",
                 !.venue[id].leg_status =
                    IF w.venue[id].kind = "oco" THEN "canceled" ELSE "none"]
  ELSE IF w.cancelThrows THEN Throw(w) ELSE w

\* _formatOrder of one venue order, legs nested or not
FormatOrder(w, id, nested) ==
  LET o == w.venue[id] IN
  [id |-> id, order_class |-> IF o.kind = "oco" THEN "oco" ELSE "simple",
   status |-> o.status, qty |-> o.qty, filled_qty |-> o.filled_qty,
   filled_avg_price |-> o.filled_avg_price,
   legs |-> IF o.kind = "oco" /\ nested
            THEN <<[id |-> LegId(id), type |-> "stop", status |-> o.leg_status,
                    filled_qty |-> IF o.leg_status = "filled" THEN o.qty ELSE 0,
                    filled_avg_price |-> IF o.leg_status = "filled" THEN o.stop_price ELSE 0]>>
            ELSE <<>>]

\* getOrders("all", 500): newest first unless asked otherwise
getOrders(w, nested, desc) ==
  LET asc == [i \in 1..Len(w.venue) |-> FormatOrder(w, i, nested)]
  IN IF desc THEN Reverse(asc) ELSE asc

----------------------------------------------------------------------------
(* TradeExecutionService                                                   *)

logOrderEvent(w, eventType, phaseNumber) ==
  [w EXCEPT !.order_events =
     Append(@, [order_id |-> 0, event_type |-> eventType,
                refs |-> {}, phase |-> phaseNumber])]

\* shares of phase i of a template: floor(total * sell_pct / 100), the phase
\* numbered 4 takes what is left
RECURSIVE SharesToSell(_, _, _)
SharesAllocated(totalShares, ps, i) ==
  SumSeq([j \in 1..(i - 1) |-> SharesToSell(totalShares, ps, j)])
SharesToSell(totalShares, ps, i) ==
  IF i = 4
  THEN totalShares - SharesAllocated(totalShares, ps, i)
  ELSE Floor(totalShares * ps[i].sell_pct, 100)

\* PhasePrice with the sign of the percentage reversed
PhasePriceReversed(price, pct) == RoundDiv(price * (100 - pct), 100)

\* price * (1 + pct / 100) as the decimal(14,4) column keeps it
PhasePrice(price, pct) == RoundDiv(price * (100 + pct), 100)

PhaseRows(totalShares, entryPrice, ps) ==
  [i \in 1..Len(ps) |->
     [phase_number |-> i, status |-> "pending",
      take_profit_pct |-> ps[i].take_profit_pct,
      stop_loss_pct |-> ps[i].stop_loss_pct,
      sell_pct |-> ps[i].sell_pct,
      take_profit_price |-> PhasePrice(entryPrice, ps[i].take_profit_pct),
      stop_loss_price |-> PhasePrice(entryPrice, ps[i].stop_loss_pct),
      shares_to_sell |-> SharesToSell(totalShares, ps, i),
      exit_price |-> 0, exit_type |-> "", phase_pnl_set |-> FALSE, phase_pnl |-> 0]]

OrderRow(venueId, side, orderClass, qty, phaseNumber, purpose, status) ==
  [alpaca_order_id |-> venueId, side |-> side, order_class |-> orderClass,
   qty |-> qty, phase |-> phaseNumber, purpose |-> purpose, status |-> status,
   filled_qty |-> 0, filled_avg_price |-> 0]

\* _getTemplate that ignores the id it is given
getTemplateActiveOnly(templateId) ==
  LET hit == {i \in 1..Len(templates) : templates[i].is_active}
  IN IF hit = {} THEN <<>> ELSE <<templates[CHOOSE i \in hit : \A j \in hit : i <= j]>>

\* _getTemplate
getTemplate(templateId) ==
  LET hit == IF templateId # 0
             THEN {i \in 1..Len(templates) : templates[i].id = templateId}
             ELSE {i \in 1..Len(templates) : templates[i].is_active}
  IN IF hit = {} THEN <<>> ELSE <<templates[CHOOSE i \in hit : \A j \in hit : i <= j]>>

\* completeTrade
completeTrade(w, exitReason) ==
  IF w.trade.status = "none" THEN Throw(w) ELSE
  LET withPnl == SelectIdx(w.phases, LAMBDA p : p.phase_pnl_set)
      totalPnl == SumSeq([k \in 1..Len(SetToSeq(withPnl)) |->
                            w.phases[SetToSeq(withPnl)[k]].phase_pnl])
      \* (totalPnl / position_size) * 100 as the decimal(8,4) column keeps it;
      \* position sizes are whole dollars in this model
      pnlPct == RoundDiv(totalPnl * 100, w.trade.position_size \div 10000)
      completed == {i \in withPnl : w.phases[i].status = "completed"}
      exitPhase == IF completed = {} THEN 1
                   ELSE CHOOSE i \in completed : \A j \in completed : j <= i
      w1 == [w EXCEPT !.trade.status = "completed",
                      !.trade.realized_pnl_set = TRUE,
                      !.trade.realized_pnl = ToDecimal2(totalPnl),
                      !.trade.realized_pnl_pct = pnlPct,
                      !.trade.exit_reason = exitReason,
                      !.trade.exit_phase = exitPhase]
  IN logOrderEvent(w1, "trade_completed", exitPhase)

\* placePhaseOrders without lines 357-387: no stop for the remaining shares
placePhaseOrdersOcoOnly(w, phaseNumber) ==
  IF w.trade.status = "none" \/ phaseNumber \notin 1..Len(w.phases) THEN Throw(w) ELSE
  LET phase == w.phases[phaseNumber]
      w1 == [w EXCEPT !.phases[phaseNumber].status = "active"]
      w2 == placeOCOSellOrder(w1, phase.shares_to_sell, phase.take_profit_price,
                              phase.stop_loss_price, ClientOrderId("OCO", phaseNumber))
  IN IF w2.err THEN w2 ELSE
     logOrderEvent(
       [w2 EXCEPT !.orders =
          Append(@, OrderRow(Len(w2.venue), "sell", "oco", phase.shares_to_sell,
                             phaseNumber, "phase_tp", "new"))],
       "phase_orders_placed", phaseNumber)

\* placePhaseOrders
placePhaseOrders(w, phaseNumber) ==
  IF w.trade.status = "none" \/ phaseNumber \notin 1..Len(w.phases) THEN Throw(w) ELSE
  LET phase == w.phases[phaseNumber]
      w1 == [w EXCEPT !.phases[phaseNumber].status = "active"]
      w2 == placeOCOSellOrder(w1, phase.shares_to_sell, phase.take_profit_price,
                              phase.stop_loss_price, ClientOrderId("OCO", phaseNumber))
  IN IF w2.err THEN w2 ELSE
  LET w3 == [w2 EXCEPT !.orders =
               Append(@, OrderRow(Len(w2.venue), "sell", "oco", phase.shares_to_sell,
                                  phaseNumber, "phase_tp", "new"))]
      remainingShares == w.trade.total_shares - phase.shares_to_sell
  IN IF phaseNumber = 1 /\ remainingShares > 0
     THEN LET w4 == placeStopLossSellOrder(w3, remainingShares, phase.stop_loss_price,
                                           ClientOrderId("SL", phaseNumber))
          IN IF w4.err THEN w4 ELSE
             logOrderEvent(
               [w4 EXCEPT !.orders =
                  Append(@, OrderRow(Len(w4.venue), "sell", "simple", remainingShares,
                                     phaseNumber, "remaining_sl", "new"))],
               "phase_orders_placed", phaseNumber)
     ELSE logOrderEvent(w3, "phase_orders_placed", phaseNumber)

\* handleEntryFill without lines 260-273: the phase prices stay those computed
\* from the requested entry price
handleEntryFillKeepPrices(w, fillPrice, filledQty) ==
  IF w.trade.status = "none" THEN Throw(w) ELSE
  LET w1 == [w EXCEPT !.trade.entry_price = fillPrice,
                      !.trade.status = "active",
                      !.trade.current_phase = 1]
      w2 == placePhaseOrders(w1, 1)
  IN IF w2.err THEN w2 ELSE logOrderEvent(w2, "entry_filled", 0)

\* handleEntryFill
handleEntryFill(w, fillPrice, filledQty) ==
  IF w.trade.status = "none" THEN Throw(w) ELSE
  LET w1 == [w EXCEPT !.trade.entry_price = fillPrice,
                      !.trade.status = "active",
                      !.trade.current_phase = 1,
                      !.phases = [i \in 1..Len(w.phases) |->
                         [w.phases[i] EXCEPT
                            !.take_profit_price = PhasePrice(fillPrice, w.phases[i].take_profit_pct),
                            !.stop_loss_price = PhasePrice(fillPrice, w.phases[i].stop_loss_pct)]]]
      w2 == placePhaseOrders(w1, 1)
  IN IF w2.err THEN w2 ELSE logOrderEvent(w2, "entry_filled", 0)

\* the loop of handlePhaseTakeProfitHit over the old remaining_sl orders
RECURSIVE CancelOldSlOrders(_, _)
CancelOldSlOrders(w, idxs) ==
  IF idxs = <<>> \/ w.err THEN w ELSE
  LET k == Head(idxs)
      order == w.orders[k]
  IN IF order.status # "cancelled" /\ order.status # "filled"
     THEN LET w1 == cancelOrder(w, order.alpaca_order_id)
          IN IF w1.err THEN w1
             ELSE CancelOldSlOrders([w1 EXCEPT !.orders[k].status = "cancelled"], Tail(idxs))
     ELSE CancelOldSlOrders(w, Tail(idxs))

\* handlePhaseTakeProfitHit without lines 461-471: the phase is closed and
\* the shares are counted, the trade neither completes nor advances
handlePhaseTakeProfitHitNoAdvance(w, phaseNumber, fillPrice) ==
  IF w.trade.status = "none" \/ phaseNumber \notin 1..Len(w.phases) THEN Throw(w) ELSE
  LET currentPhase == w.phases[phaseNumber]
      phasePnl == (fillPrice - w.trade.entry_price) * currentPhase.shares_to_sell
  IN logOrderEvent(
       [w EXCEPT !.phases[phaseNumber].status = "completed",
                 !.phases[phaseNumber].exit_price = fillPrice,
                 !.phases[phaseNumber].exit_type = "take_profit",
                 !.phases[phaseNumber].phase_pnl_set = TRUE,
                 !.phases[phaseNumber].phase_pnl = ToDecimal2(phasePnl),
                 !.trade.remaining_shares = @ - currentPhase.shares_to_sell],
       "phase_tp_hit", phaseNumber)

\* handlePhaseTakeProfitHit
handlePhaseTakeProfitHit(w, phaseNumber, fillPrice) ==
  IF w.trade.status = "none" \/ phaseNumber \notin 1..Len(w.phases) THEN Throw(w) ELSE
  LET currentPhase == w.phases[phaseNumber]
      phasePnl == (fillPrice - w.trade.entry_price) * currentPhase.shares_to_sell
      newRemainingShares == w.trade.remaining_shares - currentPhase.shares_to_sell
      w1 == [w EXCEPT !.phases[phaseNumber].status = "completed",
                      !.phases[phaseNumber].exit_price = fillPrice,
                      !.phases[phaseNumber].exit_type = "take_profit",
                      !.phases[phaseNumber].phase_pnl_set = TRUE,
                      !.phases[phaseNumber].phase_pnl = ToDecimal2(phasePnl),
                      !.trade.remaining_shares = newRemainingShares]
      oldSlOrders == SetToSeq(SelectIdx(w1.orders,
                        LAMBDA o : o.phase = phaseNumber /\ o.purpose = "remaining_sl"))
      w2 == CancelOldSlOrders(w1, oldSlOrders)
  IN IF w2.err THEN w2 ELSE
  LET w3 == IF phaseNumber >= 4 \/ newRemainingShares <= 0
            THEN completeTrade(w2, "phase_4_complete")
            ELSE placePhaseOrders([w2 EXCEPT !.trade.current_phase = phaseNumber + 1],
                                  phaseNumber + 1)
  IN IF w3.err THEN w3 ELSE logOrderEvent(w3, "phase_tp_hit", phaseNumber)

\* the open orders of the trade: cancelled at the venue when still live there
\* (a failing cancel is swallowed), marked cancelled in the ledger either way
CancelOpenOrders(w) ==
  LET open == SelectIdx(w.orders, LAMBDA o : o.status \notin {"filled", "cancelled"})
      ids == {w.orders[k].alpaca_order_id : k \in open}
  IN [w EXCEPT
        !.venue = [i \in 1..Len(w.venue) |->
                     IF i \in ids /\ VenueLive(w.venue[i]) /\ ~w.cancelDown
                     THEN [w.venue[i] EXCEPT
                             !.status = "canceled",
                             !.leg_status = IF w.venue[i].kind = "oco" THEN "canceled" ELSE "none"]
                     ELSE w.venue[i]],
        !.orders = [k \in 1..Len(w.orders) |->
                      IF k \in open THEN [w.orders[k] EXCEPT !.status = "cancelled"]
                      ELSE w.orders[k]]]

\* handlePhaseStopLossHit
handlePhaseStopLossHit(w, phaseNumber, fillPrice, filledQty) ==
  IF w.trade.status = "none" THEN Throw(w) ELSE
  LET w1 == CancelOpenOrders(w)
      phasePnl == (fillPrice - w.trade.entry_price) * filledQty
      w2 == IF phaseNumber \in 1..Len(w1.phases)
            THEN [w1 EXCEPT !.phases[phaseNumber].status = "completed",
                            !.phases[phaseNumber].exit_price = fillPrice,
                            !.phases[phaseNumber].exit_type = "stop_loss",
                            !.phases[phaseNumber].phase_pnl_set = TRUE,
                            !.phases[phaseNumber].phase_pnl = ToDecimal2(phasePnl)]
            ELSE w1
      w3 == completeTrade(w2, "stopped_out")
  IN IF w3.err THEN w3 ELSE logOrderEvent(w3, "phase_sl_hit", phaseNumber)

\* cancelTrade without the test of lines 641-643
cancelTradeUnguarded(w) ==
  IF w.trade.status = "none" THEN Throw(w) ELSE
  [CancelOpenOrders(w) EXCEPT !.trade.status = "cancelled",
                              !.trade.exit_reason = "manual"]

\* cancelTrade
cancelTrade(w) ==
  IF w.trade.status \in {"none", "completed", "cancelled"} THEN Throw(w) ELSE
  [CancelOpenOrders(w) EXCEPT !.trade.status = "cancelled",
                              !.trade.exit_reason = "manual"]

----------------------------------------------------------------------------
(* TradeMonitor: the push handler and the poll                             *)

FindOrder(w, venueId) ==
  SelectIdx(w.orders, LAMBDA o : o.alpaca_order_id = venueId)

FirstOf(S) == CHOOSE x \in S : \A y \in S : x <= y

\* handleOrderFill: the execution handler chosen by the ledger order's purpose
handleOrderFill(w, dbOrder, fillPrice, filledQty) ==
  CASE dbOrder.purpose = "entry" -> handleEntryFill(w, fillPrice, filledQty)
    [] dbOrder.purpose = "phase_tp" -> handlePhaseTakeProfitHit(w, dbOrder.phase, fillPrice)
    [] dbOrder.purpose \in {"phase_sl", "remaining_sl"} ->
         handlePhaseStopLossHit(w, dbOrder.phase, fillPrice, filledQty)
    [] OTHER -> w

\* handleOrderRejection
handleOrderRejection(w, k) == [w EXCEPT !.orders[k].status = "rejected"]

\* the venue ids the text of an update payload contains
UpdateRefs(w, update) ==
  {update.id} \cup
  (IF update.id \in 1..Len(w.venue) /\ w.venue[update.id].kind = "oco"
   THEN {LegId(update.id)} ELSE {})

\* handleOrderUpdate: anything thrown inside is caught and logged
HandleOrderUpdateCatchRethrows(w) == w

\* the catch of handleOrderUpdate: the error is logged and the call returns
HandleOrderUpdateCatch(w) == Caught(w)

handleOrderUpdate(w, update) ==
  LET found == FindOrder(w, update.id) IN
  IF found = {} THEN w ELSE
  LET k == FirstOf(found)
      dbOrder == w.orders[k]
  IN IF update.status \notin OrderStatusEnum THEN w ELSE
  LET w1 == [w EXCEPT !.orders[k].status = update.status,
                      !.orders[k].filled_qty = update.filled_qty,
                      !.orders[k].filled_avg_price = update.filled_avg_price,
                      !.order_events =
                         Append(@, [order_id |-> k, event_type |-> update.event,
                                    refs |-> UpdateRefs(w, update), phase |-> dbOrder.phase])]
  IN CASE update.event = "fill" ->
            HandleOrderUpdateCatch(
              handleOrderFill(w1, dbOrder, update.filled_avg_price, update.filled_qty))
       [] update.event = "rejected" -> handleOrderRejection(w1, k)
       [] OTHER -> w1

SyncStatuses == {"new", "accepted", "pending_new", "partially_filled", "filled"}

\* syncOrders: with no open ledger order it returns; otherwise the statement
\* after the early return reads the undeclared identifier dbOrdersCount and
\* the ReferenceError ends the call before the venue is asked anything
syncOrders(w) ==
  LET dbOrders == SelectIdx(w.orders, LAMBDA o : o.status \in SyncStatuses)
  IN IF dbOrders = {} THEN w ELSE Throw(w)

----------------------------------------------------------------------------
(* TradeReconciliationService (the definition the module exports)          *)

isLegFillRecorded(w, legId) ==
  \E n \in 1..Len(w.order_events) :
     /\ w.order_events[n].event_type \in {"fill", "partial_fill"}
     /\ legId \in w.order_events[n].refs

\* the filled legs of one venue order that no order event records
UnrecordedLegs(w, alpacaOrder, k) ==
  LET hit == SelectIdx(alpacaOrder.legs,
                LAMBDA leg : leg.status = "filled" /\ ~isLegFillRecorded(w, leg.id))
  IN [n \in 1..Len(SetToSeq(hit)) |->
        [type |-> "oco_leg", order |-> alpacaOrder,
         leg |-> alpacaOrder.legs[SetToSeq(hit)[n]], k |-> k]]

NoLeg == [id |-> 0, type |-> "", status |-> "", filled_qty |-> 0, filled_avg_price |-> 0]

\* the body of the loop of findMissedEvents for one venue order of the trade
MissedOfOrder(w, alpacaOrder) ==
  LET k == FirstOf(FindOrder(w, alpacaOrder.id))
      dbOrder == w.orders[k]
  IN (IF alpacaOrder.status = "filled" /\ dbOrder.status # "filled"
      THEN <<[type |-> "parent", order |-> alpacaOrder, leg |-> NoLeg, k |-> k]>>
      ELSE <<>>)
     \o (IF alpacaOrder.order_class = "oco"
         THEN UnrecordedLegs(w, alpacaOrder, k) ELSE <<>>)
     \o (IF alpacaOrder.order_class = "oco" /\ alpacaOrder.status = "canceled"
         THEN UnrecordedLegs(w, alpacaOrder, k) ELSE <<>>)

RECURSIVE MissedOfOrders(_, _)
MissedOfOrders(w, alpacaOrders) ==
  IF alpacaOrders = <<>> THEN <<>>
  ELSE MissedOfOrder(w, Head(alpacaOrders)) \o MissedOfOrders(w, Tail(alpacaOrders))

\* findOrphanedOCOLegs: the OCO orders of the active and completed phases
RECURSIVE OrphansOfRows(_, _, _)
OrphansOfRows(w, alpacaOrders, ks) ==
  IF ks = <<>> THEN <<>>
  ELSE LET k == Head(ks)
           at == SelectIdx(alpacaOrders, LAMBDA o : o.id = w.orders[k].alpaca_order_id)
       IN (IF at = {} THEN <<>>
           ELSE UnrecordedLegs(w, alpacaOrders[FirstOf(at)], k))
          \o OrphansOfRows(w, alpacaOrders, Tail(ks))

RECURSIVE OrphansOfPhases(_, _, _)
OrphansOfPhases(w, alpacaOrders, ns) ==
  IF ns = <<>> THEN <<>>
  ELSE LET ocoOrders == SetToSeq(SelectIdx(w.orders,
                           LAMBDA o : /\ o.phase = Head(ns)
                                      /\ o.purpose = "phase_tp"
                                      /\ o.order_class = "oco"))
       IN OrphansOfRows(w, alpacaOrders, ocoOrders)
          \o OrphansOfPhases(w, alpacaOrders, Tail(ns))

findOrphanedOCOLegs(w, alpacaOrders) ==
  OrphansOfPhases(w, alpacaOrders,
    SetToSeq(SelectIdx(w.phases, LAMBDA p : p.status \in {"active", "completed"})))

\* handleMissedFillEvent
handleMissedFillEvent(w, purpose, phaseNumber, fillPrice, filledQty) ==
  CASE purpose = "entry" -> handleEntryFill(w, fillPrice, filledQty)
    [] purpose = "phase_tp" -> handlePhaseTakeProfitHit(w, phaseNumber, fillPrice)
    [] purpose \in {"phase_sl", "remaining_sl"} ->
         handlePhaseStopLossHit(w, phaseNumber, fillPrice, filledQty)
    [] OTHER -> w

\* processMissedFill: dbOrder is the ledger row as findMissedEvents read it
processMissedFill(w, missed, dbOrder) ==
  IF missed.type = "parent"
  THEN Caught(handleMissedFillEvent(
         [w EXCEPT !.orders[missed.k].status = "filled",
                   !.orders[missed.k].filled_qty = missed.order.filled_qty,
                   !.orders[missed.k].filled_avg_price = missed.order.filled_avg_price],
         dbOrder.purpose, dbOrder.phase,
         missed.order.filled_avg_price, missed.order.filled_qty))
  ELSE Caught(handleMissedFillEvent(
         w, IF missed.leg.type = "stop" THEN "phase_sl" ELSE "phase_tp", dbOrder.phase,
         missed.leg.filled_avg_price, missed.leg.filled_qty))

RECURSIVE ProcessAll(_, _, _)
ProcessAll(w, missedFills, dbOrders) ==
  IF missedFills = <<>> THEN w
  ELSE ProcessAll(processMissedFill(w, Head(missedFills), dbOrders[Head(missedFills).k]),
                  Tail(missedFills), dbOrders)

\* flagForManualReview with the two share counts exchanged
flagForManualReviewSwapped(w, expectedShares, actualShares) ==
  [w EXCEPT !.issues =
     Append(@, [issue_type |-> "share_discrepancy",
                expected_shares |-> actualShares, actual_shares |-> expectedShares,
                discrepancy |-> expectedShares - actualShares,
                status |-> "pending_review"])]

\* flagForManualReview
flagForManualReview(w, expectedShares, actualShares) ==
  [w EXCEPT !.issues =
     Append(@, [issue_type |-> "share_discrepancy",
                expected_shares |-> expectedShares, actual_shares |-> actualShares,
                discrepancy |-> expectedShares - actualShares,
                status |-> "pending_review"])]

\* the fills findMissedEvents finds, the orphaned legs included
MissedFills(w, nested, desc) ==
  LET alpacaOrders == getOrders(w, nested, desc)
      relevantOrders == SelectSeq(alpacaOrders, LAMBDA o : FindOrder(w, o.id) # {})
      direct == MissedOfOrders(w, relevantOrders)
  IN IF direct # <<>> THEN direct ELSE findOrphanedOCOLegs(w, alpacaOrders)

\* findMissedEvents
findMissedEvents(w, expectedShares, actualShares, nested, desc) ==
  LET missedFills == MissedFills(w, nested, desc)
  IN IF missedFills = <<>>
     THEN flagForManualReview(w, expectedShares, actualShares)
     ELSE ProcessAll(w, missedFills, w.orders)

\* reconcileTrade
reconcileTrade(w, nested, desc) ==
  LET dbRemainingShares == w.trade.remaining_shares
      actualShares == w.position
  IN IF dbRemainingShares = actualShares THEN w
     ELSE findMissedEvents(w, dbRemainingShares, actualShares, nested, desc)

\* reconcileAllTrades: the trades with status active
reconcileAllTrades(w, nested, desc) ==
  IF w.trade.status # "active" THEN w ELSE reconcileTrade(w, nested, desc)

----------------------------------------------------------------------------
(* executeTrade and its inputs                                             *)

\* the account the venue reports: 50,000.00 portfolio value, 20,000.00 buying power
Account == [portfolio_value |-> 500000000, buying_power |-> 200000000]

\* the settings rows of the migration: starting_capital 0, trade_size_percent 20
Settings == [starting_capital |-> 0, trade_size_percent |-> 20]

EntryPrices == {100000}
\* 0 stands for "not given"; 5.00 and 30,000.00 dollars otherwise
PositionSizes == {0, 50000, 300000000}
\* how far below its limit price the entry order can fill
EntrySlippage == {0, 1000}

\* the insert of executeTrade that fails, if one does: the first phase row,
\* the entry order's row, or the entry_order_placed event
InsertPoints == {"none", "trade_phases", "orders", "order_events"}

\* the loop of executeTrade inserts the phase rows one by one: the insert that
\* fails can be that of any of the four rows
PhaseInsertPoints == {"trade_phases", "trade_phases_2", "trade_phases_3", "trade_phases_4"}

\* the phase rows inserted before the failing one
RowsInsertedBefore(failAt) ==
  CASE failAt = "trade_phases" -> 0
    [] failAt = "trade_phases_2" -> 1
    [] failAt = "trade_phases_3" -> 2
    [] OTHER -> 3

\* the catch block without its update of the trade row
ExecuteTradeCatchRethrowOnly(w) == Throw(w)

\* the catch block: the trade row of this trade_uuid, if there is one, gets
\* status error and the error is raised again
ExecuteTradeCatch(w) ==
  IF w.trade.status = "none" THEN Throw(w)
  ELSE [Throw(w) EXCEPT !.trade.status = "error"]

executeTrade(w, tradable, entryPrice, positionSize, templateId) ==
  IF ~tradable THEN ExecuteTradeCatch(w) ELSE
  LET startingCapital == IF Settings.starting_capital # 0
                         THEN Settings.starting_capital ELSE Account.portfolio_value
      tradeSizePercent == IF Settings.trade_size_percent # 0
                          THEN Settings.trade_size_percent ELSE 20
      calculatedPositionSize ==
        IF positionSize # 0 THEN positionSize
        ELSE (startingCapital \div 100) * tradeSizePercent
      totalShares == Floor(calculatedPositionSize, entryPrice)
      template == getTemplate(templateId)
  IN IF totalShares < 1 THEN ExecuteTradeCatch(w)
     ELSE IF calculatedPositionSize > Account.buying_power THEN ExecuteTradeCatch(w)
     ELSE IF template = <<>> THEN ExecuteTradeCatch(w)
     ELSE
  LET w0 == [w EXCEPT
               !.trade = [NoTrade EXCEPT !.status = "pending",
                                         !.entry_price = entryPrice,
                                         !.total_shares = totalShares,
                                         !.position_size = ToDecimal2(calculatedPositionSize),
                                         !.remaining_shares = totalShares,
                                         !.current_phase = 0,
                                         !.template_id = template[1].id]]
      w1 == [w0 EXCEPT
               !.phases = PhaseRows(totalShares, entryPrice, template[1].phases)]
      w2 == placeLimitBuyOrder(w1, totalShares, entryPrice, ClientOrderId("ENTRY", 0))
      w3 == [w2 EXCEPT
               !.orders = Append(@, OrderRow(Len(w2.venue), "buy", "simple", totalShares,
                                             0, "entry", "new"))]
      w4 == [w3 EXCEPT
               !.order_events = Append(@, [order_id |-> 0, event_type |-> "entry_order_placed",
                                           refs |-> {Len(w2.venue)}, phase |-> 0])]
  IN IF w.failAt \in PhaseInsertPoints
     THEN ExecuteTradeCatch(
            [w0 EXCEPT !.phases = SubSeq(w1.phases, 1, RowsInsertedBefore(w.failAt))])
     ELSE IF w2.err THEN ExecuteTradeCatch(w2)
     ELSE IF w.failAt = "orders" THEN ExecuteTradeCatch(w2)
     ELSE IF w.failAt = "order_events" THEN ExecuteTradeCatch(w3)
     ELSE w4

----------------------------------------------------------------------------
(* The venue: fills, the update stream, positions changed from outside     *)

Update(id, event, status, qty, price) ==
  [id |-> id, event |-> event, status |-> status,
   filled_qty |-> qty, filled_avg_price |-> price]

VenueFillEntry(i, slip, inFlight) ==
  /\ Cardinality(stream) < inFlight
  /\ venue[i].kind = "limit_buy" /\ VenueLive(venue[i])
  /\ LET price == venue[i].limit_price - slip IN
     /\ venue' = [venue EXCEPT ![i].status = "filled", ![i].filled_qty = venue[i].qty,
                               ![i].filled_avg_price = price]
     /\ position' = position + venue[i].qty
     /\ stream' = stream \cup {Update(i, "fill", "filled", venue[i].qty, price)}
  /\ UNCHANGED <<serviceVars, templates, ledgerVars, dups, drift, res>>

VenueFillTakeProfit(i, inFlight) ==
  /\ Cardinality(stream) < inFlight
  /\ venue[i].kind = "oco" /\ VenueLive(venue[i])
  /\ position >= venue[i].qty
  /\ venue' = [venue EXCEPT ![i].status = "filled", ![i].leg_status = "canceled",
                            ![i].filled_qty = venue[i].qty,
                            ![i].filled_avg_price = venue[i].limit_price]
  /\ position' = position - venue[i].qty
  /\ stream' = stream \cup {Update(i, "fill", "filled", venue[i].qty, venue[i].limit_price)}
  /\ UNCHANGED <<serviceVars, templates, ledgerVars, dups, drift, res>>

\* the stop leg fills: the parent (the limit order) is cancelled by its sibling
VenueFillStopLeg(i, inFlight) ==
  /\ Cardinality(stream) < inFlight
  /\ venue[i].kind = "oco" /\ VenueLive(venue[i])
  /\ position >= venue[i].qty
  /\ venue' = [venue EXCEPT ![i].status = "canceled", ![i].leg_status = "filled"]
  /\ position' = position - venue[i].qty
  /\ stream' = stream \cup
                {Update(LegId(i), "fill", "filled", venue[i].qty, venue[i].stop_price)}
  /\ UNCHANGED <<serviceVars, templates, ledgerVars, dups, drift, res>>

VenueFillStop(i, inFlight) ==
  /\ Cardinality(stream) < inFlight
  /\ venue[i].kind = "stop" /\ VenueLive(venue[i])
  /\ position >= venue[i].qty
  /\ venue' = [venue EXCEPT ![i].status = "filled", ![i].filled_qty = venue[i].qty,
                            ![i].filled_avg_price = venue[i].stop_price]
  /\ position' = position - venue[i].qty
  /\ stream' = stream \cup {Update(i, "fill", "filled", venue[i].qty, venue[i].stop_price)}
  /\ UNCHANGED <<serviceVars, templates, ledgerVars, dups, drift, res>>

\* shares of the symbol sold at the venue by something else than the trade's orders
VenueDrift ==
  /\ drift < MaxDrift
  /\ position > 0
  /\ position' = position - 1
  /\ drift' = drift + 1
  /\ UNCHANGED <<serviceVars, templates, ledgerVars, venue, stream, dups, res>>

----------------------------------------------------------------------------
(* The operations as steps                                                 *)

OpenTrade(tradable, entryPrice, positionSize, templateId, okCalls, failAt) ==
  /\ trade.status = "none"
  /\ LET w == executeTrade([World(okCalls, FALSE) EXCEPT !.failAt = failAt],
                           tradable, entryPrice, positionSize, templateId)
     IN /\ Install(w)
        /\ res' = IF w.err THEN 500 ELSE 201
  /\ UNCHANGED <<serviceVars, templates, stream, dups, drift>>

CancelTrade(cancelThrows) ==
  /\ trade.status # "none"
  /\ LET w == cancelTrade(World(0, cancelThrows))
     IN /\ Install(w)
  /\ UNCHANGED <<serviceVars, templates, stream, dups, drift, res>>

\* the stream delivers an update; again is a second delivery of the same update
PushDeliver(update, again, okCalls, cancelThrows) ==
  /\ update \in stream
  /\ IF again
     THEN dups < MaxDuplicates /\ dups' = dups + 1 /\ stream' = stream
     ELSE dups' = dups /\ stream' = stream \ {update}
  /\ LET w == handleOrderUpdate(World(okCalls, cancelThrows), update)
     IN /\ Install(w)
  /\ UNCHANGED <<serviceVars, templates, drift, res>>

\* the stream delivers an update while the venue's cancel call fails
PushDeliverCancelDown(update, okCalls) ==
  /\ update \in stream
  /\ stream' = stream \ {update}
  /\ Install(handleOrderUpdate(WorldCancelDown(okCalls), update))
  /\ UNCHANGED <<serviceVars, templates, dups, drift, res>>

\* POST /api/trades/:id/cancel while the venue's cancel call fails
CancelTradeCancelDown ==
  /\ trade.status # "none"
  /\ Install(cancelTrade(WorldCancelDown(0)))
  /\ UNCHANGED <<serviceVars, templates, stream, dups, drift, res>>

\* the stream loses an update
PushDrop(update) ==
  /\ update \in stream
  /\ stream' = stream \ {update}
  /\ UNCHANGED <<serviceVars, templates, ledgerVars, venue, position, dups, drift, res>>

Poll ==
  /\ LET w == syncOrders(World(0, FALSE))
     IN /\ Install(Caught(w))
  /\ UNCHANGED <<serviceVars, templates, stream, dups, drift, res>>

Reconcile(nested, desc, okCalls, cancelThrows) ==
  /\ Len(reconciliation_issues) < MaxIssues
  /\ UNCHANGED <<serviceVars, templates, stream, dups, drift, res>>
  /\ Install(Caught(reconcileAllTrades(World(okCalls, cancelThrows), nested, desc)))

----------------------------------------------------------------------------
(* Specifications                                                          *)

TemplateIds == {0, 9}

InitLedger ==
  /\ trade = NoTrade
  /\ phases = <<>>
  /\ orders = <<>>
  /\ order_events = <<>>
  /\ reconciliation_issues = <<>>
  /\ venue = <<>>
  /\ position = 0
  /\ stream = {}
  /\ dups = 0
  /\ drift = 0
  /\ res = 0
  /\ cyclesSync = 0
  /\ passes = 0
  /\ isReconciling = FALSE
  /\ isRunning = TRUE
  /\ reconnectAttempts = 0
  /\ timers = 0
  /\ sockets = [connecting |-> 1, connected |-> 0, subscribed |-> 0]
  /\ scheduled = 0
  /\ lost = 0
  /\ handling = <<>>

Init == InitLedger /\ templates = defaultTemplates

Next ==
  \/ \E tradable \in BOOLEAN, entryPrice \in EntryPrices, positionSize \in PositionSizes,
        templateId \in TemplateIds, okCalls \in {0, 1}, failAt \in InsertPoints :
       OpenTrade(tradable, entryPrice, positionSize, templateId, okCalls, failAt)
  \/ \E cancelThrows \in BOOLEAN : CancelTrade(cancelThrows)
  \/ \E update \in stream, again \in BOOLEAN, okCalls \in OkCallsChoices, cancelThrows \in BOOLEAN :
       PushDeliver(update, again, okCalls, cancelThrows)
  \/ \E update \in stream : PushDrop(update)
  \/ Poll
  \/ \E nested \in BOOLEAN, desc \in BOOLEAN, okCalls \in OkCallsChoices, cancelThrows \in BOOLEAN :
       Reconcile(nested, desc, okCalls, cancelThrows)
  \/ \E i \in 1..Len(venue), slip \in EntrySlippage : VenueFillEntry(i, slip, MaxInFlight)
  \/ \E i \in 1..Len(venue) : VenueFillTakeProfit(i, MaxInFlight)
  \/ \E i \in 1..Len(venue) : VenueFillStopLeg(i, MaxInFlight)
  \/ \E i \in 1..Len(venue) : VenueFillStop(i, MaxInFlight)
  \/ VenueDrift

Spec == Init /\ [][Next]_vars

\* the ids a request can name: those of the table and one that is not there
RequestIds == {templates[i].id : i \in 1..Len(templates)} \cup {0}

\* the template routes alone, from the migration's table
InitTemplates == InitLedger /\ templates = defaultTemplates

NextTemplates ==
  \/ \E body \in TemplateBodies : createTemplate(body)
  \/ \E id \in RequestIds, body \in TemplateBodies : updateTemplate(id, body)
  \/ \E id \in RequestIds : activateTemplate(id)

SpecTemplates == InitTemplates /\ [][NextTemplates]_vars

\* trades opened from templates the update route has written, for every share
\* count up to MaxAllocShares (at 10.00 a share)
AllocPositionSizes == {n * 100000 : n \in 1..MaxAllocShares}

NextAlloc ==
  \/ \E id \in RequestIds, body \in TemplateBodies : updateTemplate(id, body)
  \/ \E positionSize \in AllocPositionSizes, id \in RequestIds :
       OpenTrade(TRUE, 100000, positionSize, id, 1, "none")

SpecAlloc == InitTemplates /\ [][NextAlloc]_vars

\* trades opened from templates the update route has written, with an insert
\* of executeTrade failing at any point
NextInserts ==
  \/ \E id \in RequestIds, body \in TemplateBodies : updateTemplate(id, body)
  \/ \E id \in RequestIds, okCalls \in {0, 1},
        failAt \in InsertPoints \cup PhaseInsertPoints :
       OpenTrade(TRUE, 100000, 0, id, okCalls, failAt)

SpecInserts == InitTemplates /\ [][NextInserts]_vars

\* Updates that arrive late: the venue goes on filling orders while up to
\* MaxLateInFlight updates are still undelivered or about to be delivered a
\* second time. One trade with the default template, every venue call succeeds.
NextLate ==
  \/ OpenTrade(TRUE, 100000, 0, 0, 1, "none")
  \/ \E update \in stream, again \in BOOLEAN : PushDeliver(update, again, 2, FALSE)
  \/ \E i \in 1..Len(venue) : VenueFillEntry(i, 0, MaxLateInFlight)
  \/ \E i \in 1..Len(venue) : VenueFillTakeProfit(i, MaxLateInFlight)
  \/ \E i \in 1..Len(venue) : VenueFillStopLeg(i, MaxLateInFlight)
  \/ \E i \in 1..Len(venue) : VenueFillStop(i, MaxLateInFlight)

SpecLate == Init /\ [][NextLate]_vars

\* the venue's cancel call may fail while a handler runs
NextCancelDown ==
  \/ OpenTrade(TRUE, 100000, 0, 0, 1, "none")
  \/ \E update \in stream : PushDeliver(update, FALSE, 2, FALSE)
  \/ \E update \in stream : PushDeliverCancelDown(update, 2)
  \/ CancelTrade(FALSE)
  \/ CancelTradeCancelDown
  \/ \E i \in 1..Len(venue), slip \in EntrySlippage : VenueFillEntry(i, slip, MaxInFlight)
  \/ \E i \in 1..Len(venue) : VenueFillTakeProfit(i, MaxInFlight)
  \/ \E i \in 1..Len(venue) : VenueFillStopLeg(i, MaxInFlight)
  \/ \E i \in 1..Len(venue) : VenueFillStop(i, MaxInFlight)

SpecCancelDown == Init /\ [][NextCancelDown]_vars

\* reconciliation passes that follow one another over the same trade
ReconcileAgain(nested, desc) ==
  /\ Len(reconciliation_issues) < MaxReviewIssues
  /\ UNCHANGED <<serviceVars, templates, stream, dups, drift, res>>
  /\ Install(Caught(reconcileAllTrades(World(2, FALSE), nested, desc)))

NextReview ==
  \/ OpenTrade(TRUE, 100000, 0, 0, 1, "none")
  \/ \E update \in stream : PushDeliver(update, FALSE, 2, FALSE)
  \/ \E update \in stream : PushDrop(update)
  \/ \E nested \in BOOLEAN, desc \in BOOLEAN : ReconcileAgain(nested, desc)
  \/ \E i \in 1..Len(venue), slip \in EntrySlippage : VenueFillEntry(i, slip, MaxInFlight)
  \/ \E i \in 1..Len(venue) : VenueFillTakeProfit(i, MaxInFlight)
  \/ VenueDrift

SpecReview == Init /\ [][NextReview]_vars

----------------------------------------------------------------------------
(* The periodic timer of the monitor, callback by callback.  setInterval    *)
(* starts a callback every 30 seconds whether or not the previous one has   *)
(* returned; a callback awaits syncOrders and then reconcileAllTrades.      *)

\* the timer fires: a callback starts and goes to syncOrders
TimerFires ==
  /\ cyclesSync + passes < MaxCycles
  /\ cyclesSync' = cyclesSync + 1
  /\ UNCHANGED <<passes, isReconciling, socketVars, handling, templates, ledgerVars, venueVars, res>>

\* a callback's syncOrders returns: if it threw, the callback's catch logs the
\* error and the callback ends; otherwise the callback calls
\* reconcileAllTrades, which sets isReconciling and awaits its first query
CycleSyncOrders ==
  /\ cyclesSync > 0
  /\ cyclesSync' = cyclesSync - 1
  /\ LET w == syncOrders(World(0, FALSE))
     IN /\ Install(Caught(w))
        /\ IF w.err
           THEN UNCHANGED <<passes, isReconciling>>
           ELSE passes' = passes + 1 /\ isReconciling' = TRUE
  /\ UNCHANGED <<socketVars, handling, templates, stream, dups, drift, res>>

\* a call of reconcileAllTrades does its work and returns through its finally
PassEnds(nested, desc, okCalls, cancelThrows) ==
  /\ passes > 0
  /\ passes' = passes - 1
  /\ isReconciling' = FALSE
  /\ Install(Caught(reconcileAllTrades(World(okCalls, cancelThrows), nested, desc)))
  /\ UNCHANGED <<cyclesSync, socketVars, handling, templates, stream, dups, drift, res>>

NextCycles ==
  \/ TimerFires
  \/ CycleSyncOrders
  \/ \E nested \in BOOLEAN, desc \in BOOLEAN, okCalls \in OkCallsChoices,
        cancelThrows \in BOOLEAN : PassEnds(nested, desc, okCalls, cancelThrows)
  \/ \E tradable \in BOOLEAN, entryPrice \in EntryPrices, positionSize \in PositionSizes,
        templateId \in TemplateIds, okCalls \in {0, 1}, failAt \in InsertPoints :
       OpenTrade(tradable, entryPrice, positionSize, templateId, okCalls, failAt)
  \/ \E cancelThrows \in BOOLEAN : CancelTrade(cancelThrows)
  \/ \E i \in 1..Len(venue), slip \in EntrySlippage : VenueFillEntry(i, slip, MaxInFlight)
  \/ \E update \in stream, again \in BOOLEAN, okCalls \in OkCallsChoices,
        cancelThrows \in BOOLEAN : PushDeliver(update, again, okCalls, cancelThrows)
  \/ \E update \in stream : PushDrop(update)

SpecCycles == Init /\ [][NextCycles]_vars

\* the timer fires again and again and every started callback runs on: the
\* interval is never cleared while the monitor runs, and each await returns
SpecCyclesFair ==
  /\ SpecCycles
  /\ WF_vars(TimerFires)
  /\ WF_vars(CycleSyncOrders)
  /\ WF_vars(\E nested \in BOOLEAN, desc \in BOOLEAN, okCalls \in OkCallsChoices,
               cancelThrows \in BOOLEAN : PassEnds(nested, desc, okCalls, cancelThrows))

----------------------------------------------------------------------------
(* The stream connection of the monitor.  Init is the state after start():  *)
(* connectWebSocket has created a client and called connect, isRunning is   *)
(* set.  A client that closes may reconnect by itself or be gone: that is   *)
(* the stream library's choice.                                             *)

maxReconnectAttempts == 10

ShouldReconnectAlways(attempts) == TRUE

\* the test of handleDisconnect, on the incremented counter
ShouldReconnect(attempts) == attempts <= maxReconnectAttempts

SocketCount == sockets.connecting + sockets.connected + sockets.subscribed

\* onConnect: the counter is reset, then subscribe is called; subscribeOk is
\* whether the subscription is established
OnConnect(subscribeOk) ==
  /\ sockets.connecting > 0
  /\ reconnectAttempts' = 0
  /\ scheduled' = 0
  /\ sockets' = IF subscribeOk
                THEN [sockets EXCEPT !.connecting = @ - 1, !.subscribed = @ + 1]
                ELSE [sockets EXCEPT !.connecting = @ - 1, !.connected = @ + 1]
  /\ UNCHANGED <<isRunning, timers, lost, cycleVars, handling, templates, ledgerVars, venueVars, res>>

\* onDisconnect of a client in state from -> handleDisconnect; retained: the
\* client goes on trying to connect by itself
OnDisconnect(from, retained) ==
  /\ sockets[from] > 0
  /\ sockets' = IF retained
                THEN [[sockets EXCEPT ![from] = @ - 1] EXCEPT !.connecting = @ + 1]
                ELSE [sockets EXCEPT ![from] = @ - 1]
  /\ IF ~isRunning
     THEN UNCHANGED <<reconnectAttempts, timers, scheduled, lost>>
     ELSE /\ reconnectAttempts < maxReconnectAttempts + MaxLost
          /\ reconnectAttempts' = reconnectAttempts + 1
          /\ IF ShouldReconnect(reconnectAttempts + 1)
             THEN /\ SocketCount + timers - (IF retained THEN 0 ELSE 1) < MaxSockets
                  /\ timers' = timers + 1
                  /\ scheduled' = scheduled + 1
                  /\ lost' = lost
             ELSE /\ lost < MaxLost
                  /\ lost' = lost + 1
                  /\ UNCHANGED <<timers, scheduled>>
  /\ UNCHANGED <<isRunning, cycleVars, handling, templates, ledgerVars, venueVars, res>>

\* a scheduled reconnect runs: connectWebSocket creates a client and connects
ReconnectTimer ==
  /\ timers > 0
  /\ timers' = timers - 1
  /\ sockets' = [sockets EXCEPT !.connecting = @ + 1]
  /\ UNCHANGED <<isRunning, reconnectAttempts, scheduled, lost, cycleVars, handling,
                 templates, ledgerVars, venueVars, res>>

\* stop(): isRunning is cleared; the client's disconnect is then ignored
MonitorStop ==
  /\ isRunning
  /\ isRunning' = FALSE
  /\ UNCHANGED <<reconnectAttempts, timers, sockets, scheduled, lost, cycleVars, handling,
                 templates, ledgerVars, venueVars, res>>

NextSocket ==
  \/ \E subscribeOk \in BOOLEAN : OnConnect(subscribeOk)
  \/ \E from \in {"connecting", "connected", "subscribed"}, retained \in BOOLEAN :
       OnDisconnect(from, retained)
  \/ ReconnectTimer
  \/ MonitorStop

SpecSocket == Init /\ [][NextSocket]_vars

----------------------------------------------------------------------------
(* The stream callback, call by call.  onOrderUpdate starts                 *)
(* handleOrderUpdate for every update as it arrives and does not await it,  *)
(* so a handler that is waiting for the database or the venue does not keep *)
(* the next update from being started.                                      *)

\* update is a fill for an order of the ledger: its handling reaches one of
\* handleEntryFill, handlePhaseTakeProfitHit, handlePhaseStopLossHit
StartsFillHandler(update) ==
  /\ update.event = "fill" /\ update.status \in OrderStatusEnum
  /\ FindOrder(World(0, FALSE), update.id) # {}

\* the stream hands an update to the callback: handleOrderUpdate is started
HandlerStarts(update) ==
  /\ update \in stream
  /\ StartsFillHandler(update)
  /\ Len(handling) < MaxHandlers
  /\ stream' = stream \ {update}
  /\ handling' = Append(handling, update)
  /\ UNCHANGED <<cycleVars, socketVars, templates, ledgerVars, venue, position,
                 dups, drift, res>>

\* a started handleOrderUpdate does its work and returns
HandlerReturns(i, okCalls, cancelThrows) ==
  /\ i \in 1..Len(handling)
  /\ Install(handleOrderUpdate(World(okCalls, cancelThrows), handling[i]))
  /\ handling' = SubSeq(handling, 1, i - 1) \o SubSeq(handling, i + 1, Len(handling))
  /\ UNCHANGED <<cycleVars, socketVars, templates, stream, dups, drift, res>>

NextHandlers ==
  \/ OpenTrade(TRUE, 100000, 0, 0, 1, "none")
  \/ \E update \in stream : HandlerStarts(update)
  \/ \E i \in 1..Len(handling), okCalls \in OkCallsChoices, cancelThrows \in BOOLEAN :
       HandlerReturns(i, okCalls, cancelThrows)
  \/ \E i \in 1..Len(venue), slip \in EntrySlippage : VenueFillEntry(i, slip, MaxLateInFlight)
  \/ \E update \in stream : PushDrop(update)
  \/ \E i \in 1..Len(venue) : VenueFillTakeProfit(i, MaxLateInFlight)
  \/ \E i \in 1..Len(venue) : VenueFillStopLeg(i, MaxLateInFlight)
  \/ \E i \in 1..Len(venue) : VenueFillStop(i, MaxLateInFlight)

SpecHandlers == Init /\ [][NextHandlers]_vars

----------------------------------------------------------------------------
(* Updates other than fills.  The venue spells the status of a cancelled    *)
(* order "canceled" (the monitor's own case label and comparisons do too).  *)

\* half of a live order is executed
VenuePartialFill(i) ==
  /\ Cardinality(stream) < MaxInFlight
  /\ VenueLive(venue[i]) /\ venue[i].qty > 1
  /\ LET half == Floor(venue[i].qty, 2)
         price == IF venue[i].kind = "stop" THEN venue[i].stop_price ELSE venue[i].limit_price
     IN /\ IF venue[i].kind = "limit_buy"
           THEN position' = position + half
           ELSE position >= half /\ position' = position - half
        /\ venue' = [venue EXCEPT ![i].status = "partially_filled", ![i].filled_qty = half,
                                  ![i].filled_avg_price = price]
        /\ stream' = stream \cup {Update(i, "partial_fill", "partially_filled", half, price)}
  /\ UNCHANGED <<serviceVars, templates, ledgerVars, dups, drift, res>>

\* a live order is cancelled at the venue by someone else than the engine
VenueCancels(i) ==
  /\ Cardinality(stream) < MaxInFlight
  /\ VenueLive(venue[i])
  /\ venue' = [venue EXCEPT ![i].status = "canceled",
                            ![i].leg_status = IF venue[i].kind = "oco" THEN "canceled" ELSE "none"]
  /\ stream' = stream \cup {Update(i, "canceled", "canceled", 0, 0)}
  /\ UNCHANGED <<serviceVars, templates, ledgerVars, position, dups, drift, res>>

\* a live order expires at the venue
VenueExpires(i) ==
  /\ Cardinality(stream) < MaxInFlight
  /\ VenueLive(venue[i])
  /\ venue' = [venue EXCEPT ![i].status = "expired",
                            ![i].leg_status = IF venue[i].kind = "oco" THEN "canceled" ELSE "none"]
  /\ stream' = stream \cup {Update(i, "expired", "expired", 0, 0)}
  /\ UNCHANGED <<serviceVars, templates, ledgerVars, position, dups, drift, res>>

\* the id of an order of the account that no trade of the ledger placed
ForeignOrderId == 99

\* an order placed by hand on the same account fills
ForeignFill ==
  /\ Cardinality(stream) < MaxInFlight
  /\ stream' = stream \cup {Update(ForeignOrderId, "fill", "filled", 10, 100000)}
  /\ UNCHANGED <<serviceVars, templates, ledgerVars, venue, position, dups, drift, res>>

NextEvents ==
  \/ OpenTrade(TRUE, 100000, 0, 0, 1, "none")
  \/ \E update \in stream : PushDeliver(update, FALSE, 2, FALSE)
  \/ \E i \in 1..Len(venue), slip \in EntrySlippage : VenueFillEntry(i, slip, MaxInFlight)
  \/ \E i \in 1..Len(venue) : VenueFillTakeProfit(i, MaxInFlight)
  \/ \E i \in 1..Len(venue) : VenuePartialFill(i)
  \/ \E i \in 1..Len(venue) : VenueCancels(i)
  \/ \E i \in 1..Len(venue) : VenueExpires(i)
  \/ ForeignFill

SpecEvents == Init /\ [][NextEvents]_vars

TypeOK ==
  /\ trade.status \in {"none", "pending", "active", "completed", "cancelled", "error"}
  /\ Len(phases) \in 0..4

----------------------------------------------------------------------------
(* Quantities the properties speak about                                   *)

\* the shares of the venue orders that satisfy Test
VenueQty(Test(_)) ==
  SumSeq([i \in 1..Len(venue) |-> IF Test(venue[i]) THEN venue[i].qty ELSE 0])

\* shares sold at the venue by take-profit fills of the trade's OCO orders
TakeProfitSold == VenueQty(LAMBDA o : o.kind = "oco" /\ o.status = "filled")

\* shares sold at the venue by any filled sell order of the trade
SharesSold ==
  VenueQty(LAMBDA o : \/ o.kind = "oco" /\ (o.status = "filled" \/ o.leg_status = "filled")
                      \/ o.kind = "stop" /\ o.status = "filled")

\* the phase an OCO order of the venue was placed for
OcoPhase(o) == o.client_order_id[2]

EventsCount(Test(_)) == Cardinality({k \in 1..Len(order_events) : Test(order_events[k])})

\* the venue orders of the trade with a fill the ledger has not recorded: a
\* filled order whose row is not filled, a filled stop leg no fill event names
UnrecordedFills ==
  {i \in 1..Len(venue) :
     /\ \E k \in 1..Len(orders) : orders[k].alpaca_order_id = i
     /\ \/ /\ venue[i].status = "filled"
           /\ \E k \in 1..Len(orders) :
                orders[k].alpaca_order_id = i /\ orders[k].status # "filled"
        \/ /\ venue[i].kind = "oco" /\ venue[i].leg_status = "filled"
           /\ ~\E k \in 1..Len(order_events) :
                /\ order_events[k].event_type \in {"fill", "partial_fill"}
                /\ LegId(i) \in order_events[k].refs}

TerminalStatuses == {"completed", "cancelled", "error"}

----------------------------------------------------------------------------
(* Properties                                                              *)

\* C1: a venue fill seen by the push handler and by the reconciliation sweep
\* (no update delivered twice) decrements remaining_shares at most once, so
\* remaining_shares never falls below total_shares minus the shares the venue
\* sold by take-profit fills.
C1_FillAppliedOnce ==
  (dups = 0 /\ trade.status # "none")
    => trade.remaining_shares >= trade.total_shares - TakeProfitSold

\* the stop leg of venue order i has been replayed by reconciliation: it is
\* filled, a stop-loss hit is logged for its phase, and no plain stop order
\* has filled (the only other source of a stop-loss hit)
LegReplayed(i) ==
  /\ venue[i].kind = "oco" /\ venue[i].leg_status = "filled"
  /\ ~\E j \in 1..Len(venue) : venue[j].kind = "stop" /\ venue[j].status = "filled"
  /\ \E k \in 1..Len(order_events) :
       /\ order_events[k].event_type = "phase_sl_hit"
       /\ order_events[k].phase = OcoPhase(venue[i])

\* C2: a filled OCO leg replayed through reconciliation leaves exactly one
\* order event referencing the leg id and exactly one phase transition.
C2_LegReplayedOnce ==
  \A i \in 1..Len(venue) :
     LegReplayed(i) =>
       /\ EventsCount(LAMBDA e : LegId(i) \in e.refs) = 1
       /\ EventsCount(LAMBDA e : e.event_type = "phase_sl_hit"
                                 /\ e.phase = OcoPhase(venue[i])) = 1

\* an active trade whose ledger and venue share counts differ by exactly the
\* one sell fill the ledger has not recorded
C3_Pre ==
  /\ trade.status = "active"
  /\ trade.remaining_shares # position
  /\ \E i \in 1..Len(venue) :
       /\ UnrecordedFills = {i}
       /\ venue[i].kind # "limit_buy"
       /\ position = trade.remaining_shares - venue[i].qty

\* C3: from such a state one reconciliation pass (legs visible in the order
\* history, no venue call failing) ends with remaining_shares equal to the
\* venue position and creates no reconciliation issue.
C3_OnePassConverges ==
  [][(C3_Pre /\ \E desc \in BOOLEAN : Reconcile(TRUE, desc, 2, FALSE))
       => /\ trade'.remaining_shares = position'
          /\ reconciliation_issues' = reconciliation_issues]_vars

\* an active trade whose share counts differ while the order history holds no
\* unrecorded fill of its orders
C4_Pre ==
  /\ trade.status = "active"
  /\ trade.remaining_shares # position
  /\ UnrecordedFills = {}

C5_NoStrandedPosition ==
  trade.status = "completed" => SharesSold = trade.total_shares

\* the trade's template has stop_loss_pct >= 0 for phases 2, 3 and 4
TemplateBreakeven ==
  Len(phases) = 4 /\ \A n \in 2..4 : phases[n].stop_loss_pct >= 0

\* C6: for a trade opened with such a template, the stop_loss_price of every
\* phase 2-4 is at least the trade's entry_price, before and after the entry
\* fill has recomputed the prices and after phase 1's take-profit.
C6_BreakevenOrBetter ==
  (trade.status # "none" /\ TemplateBreakeven)
    => \A n \in 2..4 : phases[n].stop_loss_price >= trade.entry_price

\* phase 1's take-profit has been processed on a trade whose entry filled
\* below its limit price
C6_AfterPhaseOneTakeProfit ==
  /\ trade.status = "active" /\ TemplateBreakeven
  /\ trade.entry_price = 99000
  /\ phases[1].status = "completed" /\ phases[1].exit_type = "take_profit"
  /\ trade.current_phase = 2
  /\ phases[2].stop_loss_price = 99000

\* C7: every template of the table has stop_loss_pct >= 0 for phases 2, 3
\* and 4, whatever the create and update routes have accepted.
C7_ValidationEnforcesBreakeven ==
  \A i \in 1..Len(templates) :
     \A n \in 2..4 : templates[i].phases[n].stop_loss_pct >= 0

\* C8: the phase rows of a trade opened with a template whose sell_pct values
\* sum to 100 have shares_to_sell >= 0 each, summing to total_shares.
C8_SharesSumToTotal ==
  (Len(phases) = 4 /\ totalSellPct(phases) = 100)
    => /\ \A n \in 1..4 : phases[n].shares_to_sell >= 0
       /\ SumSeq([n \in 1..4 |-> phases[n].shares_to_sell]) = trade.total_shares

\* C9: a completed trade's realized_pnl is the sum of phase_pnl over its
\* phases whose status is completed.
C9_RealizedPnlIsSum ==
  trade.status = "completed"
    => trade.realized_pnl =
         SumSeq([n \in 1..Len(phases) |->
                   IF phases[n].status = "completed" THEN phases[n].phase_pnl ELSE 0])

\* C10: a trade that has reached completed, cancelled or error never changes
\* status again.
C10_TerminalIsFinal ==
  [][trade.status \in TerminalStatuses => trade'.status = trade.status]_vars

\* the stream delivers the fill of the entry order
EntryFillDelivered ==
  \E update \in stream, again \in BOOLEAN, okCalls \in OkCallsChoices,
     cancelThrows \in BOOLEAN :
    /\ update.id \in 1..Len(venue) /\ venue[update.id].kind = "limit_buy"
    /\ update.event = "fill"
    /\ PushDeliver(update, again, okCalls, cancelThrows)

\* C11: an entry fill delivered for a trade that is no longer pending changes
\* neither the trade's status, current_phase or entry_price, nor any phase
\* row, and places no order at the venue.
C11_EntryFillIdempotent ==
  [][(trade.status \notin {"none", "pending"} /\ EntryFillDelivered)
       => /\ trade'.status = trade.status
          /\ trade'.current_phase = trade.current_phase
          /\ trade'.entry_price = trade.entry_price
          /\ phases' = phases
          /\ Len(venue') = Len(venue)]_vars

\* executions of completeTrade so far: each one logs a trade_completed event
TradeCompletions == EventsCount(LAMBDA e : e.event_type = "trade_completed")

\* C12: completeTrade does not write a trade that is already completed or
\* cancelled: no step from such a trade runs completeTrade's write of status,
\* realized_pnl, realized_pnl_pct, exit_reason and exit_phase, and no step
\* writes them twice.
C12_CompletedWrittenOnce ==
  [][/\ trade.status \in {"completed", "cancelled"}
          => TradeCompletions' = TradeCompletions
     /\ TradeCompletions' <= TradeCompletions + 1]_vars

\* C13: cancelTrade on a completed or cancelled trade fails with an error,
\* changes no trade or order row and sends no cancel to the venue; on a
\* pending or active trade it marks every order that is neither filled nor
\* cancelled as cancelled, sets status cancelled and exit_reason "manual".
C13_CancelTrade ==
  /\ [](trade.status \in {"completed", "cancelled"}
          => \A cancelThrows \in BOOLEAN :
               LET w == cancelTrade(World(0, cancelThrows))
               IN w.err /\ w.trade = trade /\ w.orders = orders /\ w.venue = venue)
  /\ [][(trade.status \in {"pending", "active"}
           /\ \E cancelThrows \in BOOLEAN : CancelTrade(cancelThrows))
          => /\ trade'.status = "cancelled"
             /\ trade'.exit_reason = "manual"
             /\ Len(orders') = Len(orders)
             /\ \A k \in 1..Len(orders) :
                  orders'[k] = IF orders[k].status \in {"filled", "cancelled"}
                               THEN orders[k]
                               ELSE [orders[k] EXCEPT !.status = "cancelled"]]_vars

\* an active trade with open orders has been cancelled by hand
C13_Cancelled ==
  /\ trade.status = "cancelled" /\ trade.exit_reason = "manual"
  /\ trade.current_phase >= 1
  /\ \E k \in 1..Len(orders) : orders[k].status = "cancelled" /\ orders[k].purpose = "phase_tp"
  /\ \E k \in 1..Len(orders) : orders[k].status = "filled"

\* C14: an executeTrade that fails after its trade row was inserted (at the
\* phase rows, the entry order, the order row or the event log) leaves the
\* trade with status error and raises the error again; no executeTrade that
\* failed leaves a pending trade.
C14_FailedExecuteIsError ==
  [][\A tradable \in BOOLEAN, entryPrice \in EntryPrices, positionSize \in PositionSizes,
        templateId \in TemplateIds, okCalls \in {0, 1}, failAt \in InsertPoints :
       LET w == executeTrade([World(okCalls, FALSE) EXCEPT !.failAt = failAt],
                             tradable, entryPrice, positionSize, templateId)
       IN OpenTrade(tradable, entryPrice, positionSize, templateId, okCalls, failAt)
            => /\ ((okCalls = 0 \/ failAt # "none") /\ w.trade.status # "none")
                    => (res' = 500 /\ trade'.status = "error")
               /\ res' = 500 => trade'.status # "pending"]_vars

\* the insert of the order row failed after the venue accepted the entry order
C14_ErrorAfterOrderPlaced ==
  /\ trade.status = "error" /\ res = 500
  /\ Len(phases) = 4 /\ Len(venue) = 1 /\ Len(orders) = 0

\* the position size executeTrade works with: the one given, or the share of
\* the capital the settings name
PositionSizeUsed(positionSize) ==
  IF positionSize # 0 THEN positionSize
  ELSE (Account.portfolio_value \div 100) * Settings.trade_size_percent

\* the four reasons for which executeTrade refuses a request
Refused(tradable, entryPrice, positionSize, templateId) ==
  \/ ~tradable
  \/ PositionSizeUsed(positionSize) \div entryPrice = 0
  \/ PositionSizeUsed(positionSize) > Account.buying_power
  \/ /\ templateId # 0
     /\ \A i \in 1..Len(templates) : templates[i].id # templateId
  \/ /\ templateId = 0
     /\ \A i \in 1..Len(templates) : ~templates[i].is_active

\* C15: executeTrade answers with an error, creates no trade, phase or order
\* row and submits no order when the asset is not tradable, the position size
\* buys no whole share, the position size exceeds the buying power, or no
\* template is found.
C15_RefusedLeavesNothing ==
  [][\A tradable \in BOOLEAN, entryPrice \in EntryPrices, positionSize \in PositionSizes,
        templateId \in TemplateIds, okCalls \in {0, 1}, failAt \in InsertPoints :
       (/\ Refused(tradable, entryPrice, positionSize, templateId)
        /\ OpenTrade(tradable, entryPrice, positionSize, templateId, okCalls, failAt))
         => /\ res' = 500
            /\ trade' = NoTrade /\ phases' = <<>> /\ orders' = <<>>
            /\ order_events' = <<>> /\ venue' = <<>>]_vars

\* a request has been refused and nothing exists
C15_Refused ==
  /\ res = 500
  /\ trade.status = "none" /\ phases = <<>> /\ orders = <<>> /\ venue = <<>>

\* the ledger after each write of handlePhaseTakeProfitHit, in the order of
\* the writes: the phase row, remaining_shares, the old stops, the rest
handlePhaseTakeProfitHitWrites(w, phaseNumber, fillPrice) ==
  IF w.trade.status = "none" \/ phaseNumber \notin 1..Len(w.phases) THEN <<>> ELSE
  LET currentPhase == w.phases[phaseNumber]
      phasePnl == (fillPrice - w.trade.entry_price) * currentPhase.shares_to_sell
      wPhase == [w EXCEPT !.phases[phaseNumber].status = "completed",
                          !.phases[phaseNumber].exit_price = fillPrice,
                          !.phases[phaseNumber].exit_type = "take_profit",
                          !.phases[phaseNumber].phase_pnl_set = TRUE,
                          !.phases[phaseNumber].phase_pnl = ToDecimal2(phasePnl)]
      wShares == [wPhase EXCEPT !.trade.remaining_shares =
                                   w.trade.remaining_shares - currentPhase.shares_to_sell]
      oldSlOrders == SetToSeq(SelectIdx(wShares.orders,
                        LAMBDA o : o.phase = phaseNumber /\ o.purpose = "remaining_sl"))
  IN <<wPhase, wShares, CancelOldSlOrders(wShares, oldSlOrders),
       handlePhaseTakeProfitHit(w, phaseNumber, fillPrice)>>

\* the ledger order a stream update is about, if there is one
UpdatedOrder(update) ==
  LET found == FindOrder(World(0, FALSE), update.id)
  IN IF found = {} THEN <<>> ELSE <<orders[FirstOf(found)]>>

\* C16: a trade whose remaining_shares is 0 has status completed or cancelled,
\* in every state and in the ledger after each single write of the
\* take-profit handler.
C16_NoSharesMeansClosed ==
  /\ []((trade.status # "none" /\ trade.remaining_shares = 0)
         => trade.status \in {"completed", "cancelled"})
  /\ [][\A update \in stream, again \in BOOLEAN, okCalls \in OkCallsChoices,
           cancelThrows \in BOOLEAN :
          (/\ PushDeliver(update, again, okCalls, cancelThrows)
           /\ update.event = "fill" /\ update.status \in OrderStatusEnum
           /\ UpdatedOrder(update) # <<>>
           /\ UpdatedOrder(update)[1].purpose = "phase_tp")
            => LET writes == handlePhaseTakeProfitHitWrites(
                               World(okCalls, cancelThrows),
                               UpdatedOrder(update)[1].phase, update.filled_avg_price)
               IN \A k \in 1..Len(writes) :
                    writes[k].trade.remaining_shares = 0
                      => writes[k].trade.status \in {"completed", "cancelled"}]_vars

\* C17: while the trade is active its current_phase never decreases.
C17_PhaseNeverDecreases ==
  [][(trade.status = "active" /\ trade'.status = "active")
       => trade'.current_phase >= trade.current_phase]_vars

\* the phase rows with status active
ActivePhases == {n \in 1..Len(phases) : phases[n].status = "active"}

\* C18: at most one phase row of the trade has status active.
C18_OneActivePhase == Cardinality(ActivePhases) <= 1

\* the stream delivers the fill of a stop order of phase n
StopFillDelivered(n) ==
  \E update \in stream, again \in BOOLEAN, okCalls \in OkCallsChoices,
     cancelThrows \in BOOLEAN :
    /\ update.event = "fill" /\ update.status \in OrderStatusEnum
    /\ UpdatedOrder(update) # <<>>
    /\ UpdatedOrder(update)[1].purpose \in {"phase_sl", "remaining_sl"}
    /\ UpdatedOrder(update)[1].phase = n
    /\ PushDeliver(update, again, okCalls, cancelThrows)

\* C19: a stop-loss fill for phase n of an active trade completes the trade
\* with exit_reason "stopped_out", completes phase n with exit_type
\* "stop_loss", leaves every phase above n that was pending as skipped, and
\* sets realized_pnl to the sum of the phase P&Ls recorded up to phase n.
C19_StopLossClosesTrade ==
  [][\A n \in PhaseNumbers :
       (trade.status = "active" /\ StopFillDelivered(n))
         => /\ trade'.status = "completed"
            /\ trade'.exit_reason = "stopped_out"
            /\ phases'[n].status = "completed"
            /\ phases'[n].exit_type = "stop_loss"
            /\ \A m \in PhaseNumbers :
                 (m > n /\ phases[m].status = "pending") => phases'[m].status = "skipped"
            /\ trade'.realized_pnl =
                 SumSeq([m \in 1..n |-> IF phases'[m].phase_pnl_set
                                        THEN phases'[m].phase_pnl ELSE 0])]_vars

\* update is the fill of the take-profit order of a phase
IsTakeProfitFill(update) ==
  /\ update.event = "fill" /\ update.status \in OrderStatusEnum
  /\ UpdatedOrder(update) # <<>>
  /\ UpdatedOrder(update)[1].purpose = "phase_tp"

\* C20: a take-profit fill at price p for the active phase n < 4 of an active
\* trade that keeps shares afterwards completes phase n with
\* phase_pnl = (p - entry_price) * shares_to_sell(n), reduces remaining_shares
\* by shares_to_sell(n), sets current_phase to n + 1 and makes phase n + 1
\* active with an OCO sell order for shares_to_sell(n + 1) placed at the venue,
\* whenever the venue accepts the calls the handler makes.
C20_TakeProfitAdvances ==
  [][\A update \in stream :
       (/\ IsTakeProfitFill(update)
        /\ trade.status = "active"
        /\ UpdatedOrder(update)[1].phase \in 1..3
        /\ phases[UpdatedOrder(update)[1].phase].status = "active"
        /\ trade.remaining_shares > phases[UpdatedOrder(update)[1].phase].shares_to_sell
        /\ \E again \in BOOLEAN, okCalls \in {1, 2} :
             PushDeliver(update, again, okCalls, FALSE))
         => LET n == UpdatedOrder(update)[1].phase
                p == update.filled_avg_price
            IN /\ phases'[n].status = "completed"
               /\ phases'[n].exit_type = "take_profit"
               /\ phases'[n].phase_pnl = (p - trade.entry_price) * phases[n].shares_to_sell
               /\ trade'.remaining_shares = trade.remaining_shares - phases[n].shares_to_sell
               /\ trade'.status = "active"
               /\ trade'.current_phase = n + 1
               /\ phases'[n + 1].status = "active"
               /\ \E i \in 1..Len(venue') :
                    /\ venue'[i].kind = "oco"
                    /\ venue'[i].client_order_id = ClientOrderId("OCO", n + 1)
                    /\ venue'[i].qty = phases[n + 1].shares_to_sell]_vars

\* 350 of 1,000 shares bought at 10.00 were sold at 10.20: phase 1 is
\* completed with 70.00, 650 shares remain, phase 2 is active with its order
C20_PhaseOneSold ==
  /\ trade.status = "active" /\ trade.entry_price = 100000
  /\ trade.total_shares = 1000 /\ trade.remaining_shares = 650
  /\ trade.current_phase = 2
  /\ phases[1].status = "completed" /\ phases[1].exit_price = 102000
  /\ phases[1].phase_pnl = 700000
  /\ phases[2].status = "active"
  /\ \E i \in 1..Len(venue) : venue[i].kind = "oco" /\ venue[i].qty = 300
                              /\ venue[i].status = "new"

\* update is the fill of the entry order of the trade
IsEntryFill(update) ==
  /\ update.event = "fill" /\ update.status \in OrderStatusEnum
  /\ UpdatedOrder(update) # <<>>
  /\ UpdatedOrder(update)[1].purpose = "entry"

\* C21: a trade of 1,000 shares with the 35/30/25/10 template has phases of
\* 350/300/250/100 shares; processing the entry fill sets every phase price to
\* fillPrice * (1 + pct / 100), from the price of the fill and not from the
\* requested entry price: for a fill at 10.00, take-profit prices
\* 10.20/10.50/10.80/11.20 and stop-loss prices 9.80/10.00/10.20/10.50.
C21_PhasePricesFromFill ==
  /\ []((trade.status # "none" /\ trade.total_shares = 1000 /\ Len(phases) = 4
         /\ [n \in 1..4 |-> phases[n].sell_pct] = <<35, 30, 25, 10>>)
        => [n \in 1..4 |-> phases[n].shares_to_sell] = <<350, 300, 250, 100>>)
  /\ [][\A update \in stream :
          (/\ IsEntryFill(update)
           /\ \E again \in BOOLEAN, okCalls \in OkCallsChoices, cancelThrows \in BOOLEAN :
                PushDeliver(update, again, okCalls, cancelThrows))
            => LET p == update.filled_avg_price
               IN /\ trade'.entry_price = p
                  /\ \A n \in 1..Len(phases) :
                       /\ phases'[n].take_profit_price * 100
                            = p * (100 + phases[n].take_profit_pct)
                       /\ phases'[n].stop_loss_price * 100
                            = p * (100 + phases[n].stop_loss_pct)
                  /\ (p = 100000 /\ Len(phases) = 4
                      /\ [n \in 1..4 |-> phases[n].take_profit_pct] = <<2, 5, 8, 12>>
                      /\ [n \in 1..4 |-> phases[n].stop_loss_pct] = <<-2, 0, 2, 5>>)
                       => /\ [n \in 1..4 |-> phases'[n].take_profit_price]
                               = <<102000, 105000, 108000, 112000>>
                          /\ [n \in 1..4 |-> phases'[n].stop_loss_price]
                               = <<98000, 100000, 102000, 105000>>]_vars

\* the entry order asked for 10.00 and filled at 9.90: the phase prices are
\* those of 9.90
C21_FilledBelowLimit ==
  /\ trade.status = "active" /\ trade.entry_price = 99000
  /\ Len(phases) = 4
  /\ phases[1].shares_to_sell = 350
  /\ phases[1].take_profit_price = 100980 /\ phases[1].stop_loss_price = 97020
  /\ phases[4].take_profit_price = 110880

\* C22: at most one reconcileAllTrades pass is in progress at any time.
C22_OnePassAtATime == passes <= 1

\* C23: while the monitor is running, a disconnect that comes after
\* maxReconnectAttempts disconnects without a connect schedules no reconnect
\* and sends the 'WebSocket Connection Lost' notification, and never more than
\* maxReconnectAttempts reconnects are scheduled between two connects.
C23_ReconnectBounded ==
  /\ [](scheduled <= maxReconnectAttempts)
  /\ [][\A from \in {"connecting", "connected", "subscribed"}, retained \in BOOLEAN :
          (OnDisconnect(from, retained) /\ isRunning
             /\ reconnectAttempts >= maxReconnectAttempts)
            => (timers' = timers /\ scheduled' = scheduled /\ lost' = lost + 1)]_vars

C23_GaveUp ==
  isRunning /\ lost > 0 /\ scheduled = maxReconnectAttempts /\ timers = 0

\* C24: the reconnect counter is reset only by a connect whose subscription
\* to the order updates is established.
C24_ResetNeedsSubscribe ==
  [][reconnectAttempts' < reconnectAttempts => sockets'.subscribed > sockets.subscribed]_vars

\* the ledger orders of a pending or active trade that are filled at the venue
\* while the ledger row is not and no update for them is on its way
LostFills ==
  {k \in 1..Len(orders) :
     /\ trade.status \in {"pending", "active"}
     /\ orders[k].status \in SyncStatuses \ {"filled"}
     /\ orders[k].alpaca_order_id \in 1..Len(venue)
     /\ venue[orders[k].alpaca_order_id].status = "filled"
     /\ \A update \in stream : update.id # orders[k].alpaca_order_id}

\* C25: a fill whose update was lost is applied to the ledger by the poll: in
\* a state with such a fill, a call of syncOrders does not leave the ledger
\* as it is (without which no number of polls ever applies the fill).
C25_PollAppliesMissedFill ==
  LostFills # {} =>
    LET w == Caught(syncOrders(World(0, FALSE)))
    IN <<w.trade, w.phases, w.orders, w.order_events>>
         # <<trade, phases, orders, order_events>>

\* C26: for an order whose status at the venue has changed, the poll leaves the
\* ledger as processing the pushed update for that change leaves it: same order
\* row, same order events, same trade and phases.
C26_PollEqualsPush ==
  \A update \in stream, okCalls \in OkCallsChoices :
    (/\ trade.status \in {"pending", "active"}
     /\ update.status \in OrderStatusEnum
     /\ UpdatedOrder(update) # <<>>
     /\ UpdatedOrder(update)[1].status \in SyncStatuses
     /\ UpdatedOrder(update)[1].status # update.status
     /\ venue[update.id].status = update.status)
    => LET push == handleOrderUpdate(World(okCalls, FALSE), update)
           poll == Caught(syncOrders(World(okCalls, FALSE)))
       IN <<poll.trade, poll.phases, poll.orders, poll.order_events>>
            = <<push.trade, push.phases, push.orders, push.order_events>>

\* C27: whatever the venue answers while a pushed update is handled, no error
\* leaves handleOrderUpdate, and in every state, those after a failed handler
\* included, an update for a known order is processed: the order row takes the
\* update's status and the update's order event is appended.
C27_UpdateErrorsCaught ==
  \A update \in stream, okCalls \in OkCallsChoices, cancelThrows \in BOOLEAN :
    LET w == handleOrderUpdate(World(okCalls, cancelThrows), update)
    IN /\ ~w.err
       /\ (UpdatedOrder(update) # <<>> /\ update.status \in OrderStatusEnum)
            => /\ Len(w.order_events) > Len(order_events)
               /\ w.order_events[Len(order_events) + 1].event_type = update.event
               /\ w.order_events[Len(order_events) + 1].order_id
                     = FirstOf(FindOrder(w, update.id))
               /\ w.orders[FirstOf(FindOrder(w, update.id))].status = update.status

\* the entry fill was handled twice, and both times placing phase 1 failed
C27_ProcessedAfterFailure ==
  /\ trade.status = "active"
  /\ \A i \in 1..Len(venue) : venue[i].kind # "oco"
  /\ Cardinality({n \in 1..Len(order_events) : order_events[n].event_type = "fill"}) >= 2

\* C28: an error raised in syncOrders does not end the periodic cycle: the
\* callback goes on to reconcileAllTrades, so that the active trade is still
\* reconciled in that cycle.
C28_CycleGoesOn ==
  [][(CycleSyncOrders /\ trade.status = "active") => passes' = passes + 1]_vars

\* the ledger still has an open stop order for the shares remaining in phase n
\* while that order is filled or cancelled at the venue
OldStopTerminal(n) ==
  \E k \in 1..Len(orders) :
     /\ orders[k].phase = n /\ orders[k].purpose = "remaining_sl"
     /\ orders[k].status \notin {"cancelled", "filled"}
     /\ orders[k].alpaca_order_id \in 1..Len(venue)
     /\ ~VenueLive(venue[orders[k].alpaca_order_id])

\* C29: when the venue rejects the cancel of an order that is already filled
\* or cancelled there, the take-profit handler still advances: the trade moves
\* to phase n + 1 and phase n + 1 becomes active.
C29_CancelRejectionNotFatal ==
  [][\A update \in stream :
       (/\ IsTakeProfitFill(update)
        /\ trade.status = "active"
        /\ UpdatedOrder(update)[1].phase \in 1..3
        /\ phases[UpdatedOrder(update)[1].phase].status = "active"
        /\ trade.remaining_shares > phases[UpdatedOrder(update)[1].phase].shares_to_sell
        /\ OldStopTerminal(UpdatedOrder(update)[1].phase)
        /\ \E again \in BOOLEAN, okCalls \in {1, 2} :
             PushDeliver(update, again, okCalls, TRUE))
         => LET n == UpdatedOrder(update)[1].phase
            IN /\ trade'.current_phase = n + 1
               /\ phases'[n + 1].status = "active"]_vars

\* C30: at no time are two fill handlers of the trade in progress.
C30_OneHandlerPerTrade == Len(handling) <= 1

\* the shares of the sell orders that are live at the venue
LiveSellQty ==
  SumSeq([i \in 1..Len(venue) |->
            IF venue[i].kind \in {"oco", "stop"} /\ VenueLive(venue[i])
            THEN venue[i].qty ELSE 0])

\* C31: when a take-profit fill moves an active trade, all of whose other
\* shares are covered by live sell orders, to phase 2 or 3 and the venue
\* accepts every call of the handler, the live sell orders afterwards
\* (the new phase's OCO and a stop for the shares of the later phases) add up
\* to the shares the trade still holds.
C31_RemainingSharesCovered ==
  [][\A update \in stream :
       (/\ IsTakeProfitFill(update)
        /\ trade.status = "active"
        /\ UpdatedOrder(update)[1].phase \in 1..2
        /\ phases[UpdatedOrder(update)[1].phase].status = "active"
        /\ trade.remaining_shares = trade.total_shares
             - SumSeq([m \in 1..4 |-> IF m < UpdatedOrder(update)[1].phase
                                      THEN phases[m].shares_to_sell ELSE 0])
        /\ LiveSellQty + phases[UpdatedOrder(update)[1].phase].shares_to_sell
             = trade.remaining_shares
        /\ \E again \in BOOLEAN : PushDeliver(update, again, 2, FALSE))
         => (trade'.status = "active" => LiveSellQty' = trade'.remaining_shares)]_vars

StopLossHits ==
  Cardinality({k \in 1..Len(order_events) : order_events[k].event_type = "phase_sl_hit"})

\* the OCO orders the venue shows cancelled with the stop leg filled
CancelledWithFilledLeg ==
  {i \in 1..Len(venue) :
     venue[i].kind = "oco" /\ venue[i].status = "canceled" /\ venue[i].leg_status = "filled"}

\* C33: when the only fill the ledger has not recorded is the stop leg of an
\* OCO order the venue shows cancelled, one reconciliation pass that sees the
\* legs runs the stop-loss handler for it exactly once.
C33_OrphanLegHandledOnce ==
  [][(/\ trade.status = "active"
      /\ UnrecordedFills # {}
      /\ UnrecordedFills \subseteq CancelledWithFilledLeg
      /\ Cardinality(UnrecordedFills) = 1
      /\ stream = {}
      /\ position # trade.remaining_shares
      /\ \E desc \in BOOLEAN, okCalls \in OkCallsChoices, cancelThrows \in BOOLEAN :
           Reconcile(TRUE, desc, okCalls, cancelThrows))
     => StopLossHits' = StopLossHits + 1]_vars

\* C34: whenever a callback of the periodic timer has started while a trade is
\* active, a reconciliation pass is eventually in progress (or the trade has
\* stopped being active), whether or not syncOrders fails.
C34_EveryCycleReconciles ==
  (cyclesSync > 0 /\ trade.status = "active") ~> (passes > 0 \/ trade.status # "active")

\* C35: a pushed update for an order the ledger does not know changes nothing
\* in the ledger; a partial_fill, cancel or expiry update for a known order
\* leaves the trade and its phases as they are, mirrors the filled quantity
\* and status on the order row and appends one order event of that type.
C35_OnlyFillsMoveTheTrade ==
  [][\A update \in stream :
       PushDeliver(update, FALSE, 2, FALSE)
         => IF UpdatedOrder(update) = <<>>
            THEN UNCHANGED <<trade, phases, orders, order_events>>
            ELSE update.event \in {"partial_fill", "canceled", "expired"}
                   => LET k == FirstOf(FindOrder(World(0, FALSE), update.id))
                      IN /\ UNCHANGED <<trade, phases>>
                         /\ Len(order_events') = Len(order_events) + 1
                         /\ order_events'[Len(order_events')].event_type = update.event
                         /\ orders'[k].filled_qty = update.filled_qty
                         /\ orders'[k].status \in {update.status, "cancelled"}
                         /\ \A j \in 1..Len(orders) : j # k => orders'[j] = orders[j]]_vars

\* C36: a trade that exists has its four phase rows, in every state, those
\* after a failed executeTrade included.
C36_PhaseRowsAtomic ==
  trade.status # "none" => Len(phases) = 4

\* C37: whatever take-profit, stop-loss, duplicate and replayed fill events have
\* been handled, the trade's remaining shares stay between zero and its total
\* shares.
C37_RemainingSharesInRange ==
  trade.status # "none" =>
    /\ 0 <= trade.remaining_shares
    /\ trade.remaining_shares <= trade.total_shares

\* C38: no order row has status cancelled while its venue order is still live,
\* also after a venue cancel call that failed.
C38_CancelledMeansNotLive ==
  \A k \in 1..Len(orders) :
    (orders[k].status = "cancelled" /\ orders[k].alpaca_order_id \in 1..Len(venue))
      => ~VenueLive(venue[orders[k].alpaca_order_id])


C40_NoConnectAfterStop ==
  [][~isRunning => SocketCount' <= SocketCount]_vars

====
